---------------------------- MODULE Spec2Model ----------------------------
(***************************************************************************)
(* A model of compress() in csrc/compress.c: the two-configuration LZ      *)
(* encoder of jetsoftime.  One action is one step of the C function: the   *)
(* argument parse, the start of a trial, the start of a packet, one        *)
(* element of a packet (scan + literal or match), the two terminations,    *)
(* the abort at the size bound, the end of a trial and the final           *)
(* selection.  The C locals are the variables; bytes are kept as their     *)
(* unsigned bit patterns 0..255.  Each step is written once, as a function *)
(* on the record of the locals, so that the same text gives the            *)
(* element-by-element actions and the run of a whole trial.                *)
(***************************************************************************)
EXTENDS Integers, Sequences, FiniteSets, TLC

VARIABLES
  arg_ok,              \* whether PyArg_ParseTuple accepts the argument
  source,              \* buffer.buf, kept as [head, fill, period, tail]: the bytes
                       \* of head, then fill bytes 0, 1, .., period-1, 0, 1, ..,
                       \* then the bytes of tail
  pc,                  \* position in compress()
  i,                   \* trial index
  lookback_range, max_copy_length,
  header_pos, src_pos, out_pos, done, bit,
  best_size,
  compressed_data,     \* [0..1 -> Seq(byte)]: the written prefix of each 0x10000 array
  compressed_lengths,  \* [0..1 -> Int]
  lookback_st, lookback_end, best_len, best_len_st,
  ret_choice,
  result,              \* what compress() returned
  tightened_result     \* instrumentation: the result of the call proper, kept
                       \* while trial 1 is run again under the fixed bound

vars == <<arg_ok, source, pc, i, lookback_range, max_copy_length, header_pos,
          src_pos, out_pos, done, bit, best_size, compressed_data,
          compressed_lengths, lookback_st, lookback_end, best_len, best_len_st,
          ret_choice, result, tightened_result>>

---------------------------------------------------------------------------
(* Bounds of the model. *)

\* Every input over Alphabet of length 0..MaxLen is tried.
MaxLen == 7
\* Every run of one repeated byte of length 0..MaxRun is tried.
MaxRun == 130
\* Every input 65, 66, .. of period 2..MaxPeriod and length 0..MaxPeriodic is
\* tried, and every interleaved input of length 0..MaxPeriodic.
MaxPeriod == 3
MaxPeriodic == 40

Alphabet == {65, 66}

---------------------------------------------------------------------------
(* Program constants. *)

InitialBestSize == 4096      \* int best_size = 0x1000
Sentinel == 65536            \* compressed_lengths[0] = compressed_lengths[1] = 0x10000
\* A byte of compressed_data[][] that was never written (the arrays are
\* uninitialised stack memory): it stands for any byte value.
Uninit == -1

---------------------------------------------------------------------------
(* Bit arithmetic on non-negative ints. *)

RECURSIVE BitOr(_, _)
BitOr(x, y) ==
  IF x = 0 THEN y
  ELSE IF y = 0 THEN x
  ELSE (IF x % 2 = 1 \/ y % 2 = 1 THEN 1 ELSE 0) + 2 * BitOr(x \div 2, y \div 2)

RECURSIVE BitAnd(_, _)
BitAnd(x, y) ==
  IF x = 0 \/ y = 0 THEN 0
  ELSE (IF x % 2 = 1 /\ y % 2 = 1 THEN 1 ELSE 0) + 2 * BitAnd(x \div 2, y \div 2)

RECURSIVE BitXor(_, _)
BitXor(x, y) ==
  IF x = 0 THEN y
  ELSE IF y = 0 THEN x
  ELSE (IF x % 2 # y % 2 THEN 1 ELSE 0) + 2 * BitXor(x \div 2, y \div 2)

Shl(x, n) == x * (2 ^ n)
Shr(x, n) == x \div (2 ^ n)

\* Bit k of byte b.
BitOf(b, k) == Shr(b, k) % 2

---------------------------------------------------------------------------
(* The configuration of trial t. *)

\* lookback_range = 0x07FF | (i << 11)
LookbackRange(t) == BitOr(2047, Shl(t, 11))

\* the shift 16-(5-i) used for the length bits
LengthShift(t) == 16 - (5 - t)

\* max_copy_length = ((0xFFFF ^ lookback_range) >> (16-(5-i))) + 3
MaxCopyLength(t) == Shr(BitXor(65535, LookbackRange(t)), LengthShift(t)) + 3

\* 0xC0*(1-i)
TagByte(t) == 192 * (1 - t)

---------------------------------------------------------------------------
(* The output arrays. *)

\* compressed_data[i][pos] = val, stored into a char.
Store(buf, pos, val) ==
  IF pos < Len(buf)
  THEN [buf EXCEPT ![pos + 1] = val % 256]
  ELSE buf \o [k \in 1..(pos - Len(buf)) |-> Uninit] \o <<val % 256>>

\* compressed_data[i][pos]
Load(buf, pos) == IF pos < Len(buf) THEN buf[pos + 1] ELSE Uninit

\* The n bytes Py_BuildValue("y#", buf, n) copies, kept up to the last byte
\* of buf that was ever written: the bytes from there to n are Uninit.
ReadBytes(buf, n) == [k \in 1..(IF n < Len(buf) THEN n ELSE Len(buf)) |-> buf[k]]

---------------------------------------------------------------------------
(* The input buffer. *)

\* len_source = buffer.len
len_source == Len(source.head) + source.fill + Len(source.tail)

\* source[k].  A read outside the buffer is undefined behaviour; it yields
\* the marker Uninit, which stands for any byte.
SourceAt(k) ==
  IF k < 0 \/ k >= len_source THEN Uninit
  ELSE IF k < Len(source.head) THEN source.head[k + 1]
  ELSE IF k < Len(source.head) + source.fill
  THEN (k - Len(source.head)) % source.period
  ELSE source.tail[k - Len(source.head) - source.fill + 1]

\* The whole input as one sequence of bytes.
SourceBytes == [k \in 1..len_source |-> SourceAt(k - 1)]

---------------------------------------------------------------------------
(* The locals of compress(), as one record. *)

Locals ==
  [pc |-> pc, i |-> i, lookback_range |-> lookback_range,
   max_copy_length |-> max_copy_length, header_pos |-> header_pos,
   src_pos |-> src_pos, out_pos |-> out_pos, done |-> done, bit |-> bit,
   best_size |-> best_size, compressed_data |-> compressed_data,
   compressed_lengths |-> compressed_lengths, lookback_st |-> lookback_st,
   lookback_end |-> lookback_end, best_len |-> best_len,
   best_len_st |-> best_len_st]

Assign(s) ==
  /\ pc' = s.pc
  /\ i' = s.i
  /\ lookback_range' = s.lookback_range
  /\ max_copy_length' = s.max_copy_length
  /\ header_pos' = s.header_pos
  /\ src_pos' = s.src_pos
  /\ out_pos' = s.out_pos
  /\ done' = s.done
  /\ bit' = s.bit
  /\ best_size' = s.best_size
  /\ compressed_data' = s.compressed_data
  /\ compressed_lengths' = s.compressed_lengths
  /\ lookback_st' = s.lookback_st
  /\ lookback_end' = s.lookback_end
  /\ best_len' = s.best_len
  /\ best_len_st' = s.best_len_st

\* compressed_data[i]
Buf(s) == s.compressed_data[s.i]

\* compressed_data[i] = buf
WithBuf(s, buf) == [s.compressed_data EXCEPT ![s.i] = buf]

---------------------------------------------------------------------------
(* The match finder: the scan of lines 124-148 at position s.src_pos. *)

\* The while condition without its bound on src_pos + cur_len.
ExtendGuard_NoSourceEnd(s, cur_len) == cur_len < s.max_copy_length

\* The first two conjuncts of the while condition of lines 134-135: only
\* when they hold are source[start+cur_len] and source[src_pos+cur_len] read.
ExtendGuard(s, cur_len) ==
  /\ s.src_pos + cur_len < len_source
  /\ cur_len < s.max_copy_length

\* The while loop of lines 134-138: the final cur_len for one start.
RECURSIVE ExtendLen(_, _, _)
ExtendLen(s, start, cur_len) ==
  IF /\ ExtendGuard(s, cur_len)
     /\ SourceAt(start + cur_len) = SourceAt(s.src_pos + cur_len)
  THEN ExtendLen(s, start, cur_len + 1)
  ELSE cur_len

\* The update with > in place of >=: the first of several equal starts wins.
ScanStep_FirstWins(s, start, acc) ==
  LET cur_len == ExtendLen(s, start, 0) IN
  IF cur_len > acc[1]
  THEN <<cur_len, start, cur_len = s.max_copy_length>>
  ELSE acc

\* One iteration of the for loop of line 131 on the running
\* <<best_len, best_len_st, break taken>>.
ScanStep(s, start, acc) ==
  LET cur_len == ExtendLen(s, start, 0) IN
  IF cur_len >= acc[1]
  THEN <<cur_len, start, cur_len = s.max_copy_length>>
  ELSE acc

\* The for loop of line 131 over start = lo .. hi-1, in increasing order.
\* The range is halved only to keep the evaluation depth logarithmic; the
\* starts are still visited left to right and none is visited after the
\* break.
RECURSIVE ScanRange(_, _, _, _)
ScanRange(s, lo, hi, acc) ==
  IF acc[3] \/ lo >= hi THEN acc
  ELSE IF hi = lo + 1 THEN ScanStep(s, lo, acc)
  ELSE LET mid == (lo + hi) \div 2
       IN ScanRange(s, mid, hi, ScanRange(s, lo, mid, acc))

\* lookback_st = (src_pos - lookback_range) > 0 ? (src_pos - lookback_range) : 0
LookbackSt(s) ==
  IF s.src_pos - s.lookback_range > 0 THEN s.src_pos - s.lookback_range ELSE 0

\* lookback_end = src_pos
LookbackEnd(s) == s.src_pos

\* The scan with start <= lookback_end in place of start < lookback_end.
FindMatch_ThroughEnd(s) ==
  LET r == ScanRange(s, LookbackSt(s), LookbackEnd(s) + 1, <<0, 0, FALSE>>)
  IN [best_len |-> r[1], best_len_st |-> r[2]]

\* best_len and best_len_st after the scan at s.src_pos.
FindMatch(s) ==
  LET r == ScanRange(s, LookbackSt(s), LookbackEnd(s), <<0, 0, FALSE>>)
  IN [best_len |-> r[1], best_len_st |-> r[2]]

---------------------------------------------------------------------------
(* The steps of compress(), each a function on the locals. *)

\* The head of the body of for(i=0;i<2;i++): the configuration of trial i.
BeginTrialStep(s) ==
  [s EXCEPT !.lookback_range = LookbackRange(s.i),
            !.max_copy_length = MaxCopyLength(s.i),
            !.src_pos = 0,
            !.out_pos = 2,
            !.done = FALSE,
            !.pc = "while"]

\* The bound test made for the longest packet that could follow.
AtBound_Eager(s) == s.out_pos + 17 >= s.best_size

\* if (out_pos >= best_size)
AtBound(s) == s.out_pos >= s.best_size

\* break;
AbortStep(s) == [s EXCEPT !.pc = "end_trial"]

\* A new packet: its header byte starts as 0.
StartPacketStep(s) ==
  [s EXCEPT !.header_pos = s.out_pos,
            !.compressed_data = WithBuf(s, Store(Buf(s), s.out_pos, 0)),
            !.out_pos = s.out_pos + 1,
            !.bit = 0,
            !.pc = "element"]

\* The body length written without the - 2.
WithBodyLength_FromZero(s, buf) ==
  Store(Store(buf, 0, s.header_pos % 256), 1, s.header_pos \div 256)

\* compressed_data[i][0:2] = to_little_endian(header_pos-2, 2)
WithBodyLength(s, buf) ==
  Store(Store(buf, 0, (s.header_pos - 2) % 256), 1, (s.header_pos - 2) \div 256)

\* The source ran out at bit 0: the header byte becomes the terminator.
CleanFrame(s) == WithBodyLength(s, Store(Buf(s), s.header_pos, TagByte(s.i)))

TerminateCleanStep(s) ==
  [s EXCEPT !.compressed_data = WithBuf(s, CleanFrame(s)),
            !.compressed_lengths = [s.compressed_lengths EXCEPT ![s.i] = s.header_pos + 1],
            !.done = TRUE,
            !.pc = "end_trial"]

\* for(int j=addendum_size-1;j>=0;j--)
\*   compressed_data[i][header_pos+3+j] = compressed_data[i][header_pos+j];
RECURSIVE ShiftDown(_, _, _)
ShiftDown(buf, from, j) ==
  IF j < 0 THEN buf
  ELSE ShiftDown(Store(buf, from + 3 + j, Load(buf, from + j)), from, j - 1)

\* The addendum without  compressed_data[i][header_pos] |= mask.
AddendumFrame_NoMask(s) ==
  LET shifted == ShiftDown(Buf(s), s.header_pos, (s.out_pos - s.header_pos) - 1)
      tagged  == Store(shifted, s.header_pos, BitOr(TagByte(s.i), s.bit))
      marked  == Store(Store(tagged, s.header_pos + 1, (s.out_pos + 3) % 256),
                       s.header_pos + 2, (s.out_pos + 3) \div 256)
      closed  == Store(marked, s.out_pos + 3, TagByte(s.i))
  IN WithBodyLength(s, closed)

\* The source ran out mid-packet: the packet becomes the addendum.
AddendumFrame(s) ==
  LET mask    == Shl(255, s.bit) % 256
      masked  == Store(Buf(s), s.header_pos, BitOr(Load(Buf(s), s.header_pos), mask))
      shifted == ShiftDown(masked, s.header_pos, (s.out_pos - s.header_pos) - 1)
      tagged  == Store(shifted, s.header_pos, BitOr(TagByte(s.i), s.bit))
      marked  == Store(Store(tagged, s.header_pos + 1, (s.out_pos + 3) % 256),
                       s.header_pos + 2, (s.out_pos + 3) \div 256)
      closed  == Store(marked, s.out_pos + 3, TagByte(s.i))
  IN WithBodyLength(s, closed)

TerminateAddendumStep(s) ==
  [s EXCEPT !.compressed_data = WithBuf(s, AddendumFrame(s)),
            !.compressed_lengths = [s.compressed_lengths EXCEPT ![s.i] = s.out_pos + 4],
            !.done = TRUE,
            !.pc = "end_trial"]

\* if (best_len > 2)
UseMatch(m) == m.best_len > 2

\* compr_stream with best_len in place of best_len-3.
ComprStream_NoBias(s, m) ==
  BitOr(s.src_pos - m.best_len_st, Shl(m.best_len, LengthShift(s.i)))

\* compr_stream = lookback | ((best_len-3) << (16-(5-i)))
ComprStream(s, m) ==
  BitOr(s.src_pos - m.best_len_st, Shl(m.best_len - 3, LengthShift(s.i)))

\* The match branch without  compressed_data[i][header_pos] |= (1 << bit).
MatchBytes_NoFlag(s, m) ==
  Store(Store(Buf(s), s.out_pos, ComprStream(s, m) % 256),
        s.out_pos + 1, ComprStream(s, m) \div 256)

\* The match branch's writes: the header bit, then compr_stream little-endian.
MatchBytes(s, m) ==
  LET flagged == Store(Buf(s), s.header_pos,
                       BitOr(Load(Buf(s), s.header_pos), Shl(1, s.bit)))
  IN Store(Store(flagged, s.out_pos, ComprStream(s, m) % 256),
           s.out_pos + 1, ComprStream(s, m) \div 256)

\* compressed_data[i][out_pos] = source[src_pos];
LiteralBytes(s) == Store(Buf(s), s.out_pos, SourceAt(s.src_pos))

\* After the eighth element of a packet the while test comes next.
AfterElement(s) == IF s.bit + 1 < 8 THEN "element" ELSE "while"

\* One pass of the for loop over bit with source left: the scan, then the
\* match or the literal.
EmitStep(s) ==
  LET m == FindMatch(s)
      scanned == [s EXCEPT !.lookback_st = LookbackSt(s),
                           !.lookback_end = LookbackEnd(s),
                           !.best_len = m.best_len,
                           !.best_len_st = m.best_len_st,
                           !.bit = s.bit + 1,
                           !.pc = AfterElement(s)]
  IN IF UseMatch(m)
     THEN [scanned EXCEPT !.compressed_data = WithBuf(s, MatchBytes(s, m)),
                          !.out_pos = s.out_pos + 2,
                          !.src_pos = s.src_pos + m.best_len]
     ELSE [scanned EXCEPT !.compressed_data = WithBuf(s, LiteralBytes(s)),
                          !.out_pos = s.out_pos + 1,
                          !.src_pos = s.src_pos + 1]

\* if (compressed_lengths[i] < best_size) best_size = compressed_lengths[i];
NextBestSize(s) ==
  IF s.compressed_lengths[s.i] < s.best_size
  THEN s.compressed_lengths[s.i]
  ELSE s.best_size

\* The end of the for body, and i++.
EndTrialStep(s) ==
  [s EXCEPT !.best_size = NextBestSize(s),
            !.i = s.i + 1,
            !.pc = IF s.i + 1 < 2 THEN "for_i" ELSE "select"]

\* if (src_pos == len_source)
SourceExhausted(s) == s.src_pos = len_source

\* The step compress() takes next inside a trial.
TrialStep(s) ==
  IF s.pc = "while"
  THEN (IF AtBound(s) THEN AbortStep(s) ELSE StartPacketStep(s))
  ELSE IF SourceExhausted(s)
  THEN (IF s.bit = 0 THEN TerminateCleanStep(s) ELSE TerminateAddendumStep(s))
  ELSE EmitStep(s)

\* A trial's while loop run to its exit, in at most n steps; the steps are
\* taken in order, halved only to keep the evaluation depth logarithmic.
RECURSIVE RunSteps(_, _)
RunSteps(s, n) ==
  IF s.pc = "end_trial" THEN s
  ELSE IF n <= 1 THEN TrialStep(s)
  ELSE RunSteps(RunSteps(s, n \div 2), n - (n \div 2))

\* Every step but the last moves out_pos on, and the last packet starts
\* below best_size: a trial takes fewer steps than this.
StepBound(s) == s.best_size + 16

---------------------------------------------------------------------------
(* The inputs. *)

Bytes(seq) == [head |-> seq, fill |-> 0, period |-> 1, tail |-> <<>>]

\* n zero bytes.
Zeros(n) == [head |-> <<>>, fill |-> n, period |-> 1, tail |-> <<>>]

\* Every sequence over Alphabet of length 0..MaxLen.
ShortInputs == {Bytes(s) : s \in UNION {[1..n -> Alphabet] : n \in 0..MaxLen}}

\* Every run of zero bytes of length 0..MaxRun.
RunInputs == {Zeros(n) : n \in 0..MaxRun}

\* The bytes 65, 66, .. repeated with the given period, n of them.
Periodic(period, n) == Bytes([k \in 1..n |-> 65 + ((k - 1) % period)])

PeriodicInputs == {Periodic(q, n) : q \in 2..MaxPeriod, n \in 0..MaxPeriodic}

\* 65 66 67 x0 65 66 67 x1 ..: the same three bytes, then a byte not seen
\* before, n bytes in all.
Interleaved(n) ==
  Bytes([k \in 1..n |-> IF (k - 1) % 4 < 3 THEN 65 + ((k - 1) % 4)
                        ELSE 70 + ((k - 1) \div 4)])

InterleavedInputs == {Interleaved(n) : n \in 0..MaxPeriodic}

\* 201 202 203, then 0 1 .. 39 repeated, then 201 202 203 again: the second
\* 201 202 203 lies 0x07FF bytes after the first, the last offset
\* configuration 0 can reach, or one byte further.
WindowInputs ==
  {[head |-> <<201, 202, 203>>, fill |-> n, period |-> 40,
    tail |-> <<201, 202, 203>>] : n \in {2044, 2045}}

Inputs ==
  ShortInputs \cup RunInputs \cup PeriodicInputs \cup InterleavedInputs
    \cup WindowInputs

---------------------------------------------------------------------------
(* compress() *)

NoResult == [kind |-> "none"]

InitWith(inputs) ==
  /\ arg_ok \in BOOLEAN
  /\ source \in (IF arg_ok THEN inputs ELSE {Bytes(<<>>)})
  /\ pc = "parse"
  /\ i = 0
  /\ lookback_range = 0
  /\ max_copy_length = 0
  /\ header_pos = 0
  /\ src_pos = 0
  /\ out_pos = 0
  /\ done = FALSE
  /\ bit = 0
  /\ best_size = InitialBestSize
  /\ compressed_data = [t \in 0..1 |-> <<>>]
  /\ compressed_lengths = [t \in 0..1 |-> Sentinel]
  /\ lookback_st = 0
  /\ lookback_end = 0
  /\ best_len = 0
  /\ best_len_st = 0
  /\ ret_choice = 0
  /\ result = NoResult
  /\ tightened_result = NoResult

Init == InitWith(Inputs)

\* if (!PyArg_ParseTuple(args, "y*", &buffer)) return NULL;
ParseFail ==
  /\ pc = "parse"
  /\ ~arg_ok
  /\ result' = [kind |-> "error"]
  /\ pc' = "done"
  /\ UNCHANGED <<arg_ok, source, i, lookback_range, max_copy_length, header_pos,
                 src_pos, out_pos, done, bit, best_size, compressed_data,
                 compressed_lengths, lookback_st, lookback_end, best_len,
                 best_len_st, ret_choice, tightened_result>>

ParseOk ==
  /\ pc = "parse"
  /\ arg_ok
  /\ Assign([Locals EXCEPT !.i = 0, !.pc = "for_i"])
  /\ UNCHANGED <<arg_ok, source, ret_choice, result, tightened_result>>

BeginTrial ==
  /\ pc = "for_i"
  /\ i < 2
  /\ Assign(BeginTrialStep(Locals))
  /\ UNCHANGED <<arg_ok, source, ret_choice, result, tightened_result>>

AbortTrial ==
  /\ pc = "while"
  /\ AtBound(Locals)
  /\ Assign(AbortStep(Locals))
  /\ UNCHANGED <<arg_ok, source, ret_choice, result, tightened_result>>

StartPacket ==
  /\ pc = "while"
  /\ ~AtBound(Locals)
  /\ Assign(StartPacketStep(Locals))
  /\ UNCHANGED <<arg_ok, source, ret_choice, result, tightened_result>>

TerminateClean ==
  /\ pc = "element"
  /\ SourceExhausted(Locals)
  /\ bit = 0
  /\ Assign(TerminateCleanStep(Locals))
  /\ UNCHANGED <<arg_ok, source, ret_choice, result, tightened_result>>

TerminateAddendum ==
  /\ pc = "element"
  /\ SourceExhausted(Locals)
  /\ bit # 0
  /\ Assign(TerminateAddendumStep(Locals))
  /\ UNCHANGED <<arg_ok, source, ret_choice, result, tightened_result>>

\* One element of a packet, when the scan found more than 2 bytes.
EmitMatch ==
  /\ pc = "element"
  /\ ~SourceExhausted(Locals)
  /\ UseMatch(FindMatch(Locals))
  /\ Assign(EmitStep(Locals))
  /\ UNCHANGED <<arg_ok, source, ret_choice, result, tightened_result>>

\* One element of a packet, when it did not.
EmitLiteral ==
  /\ pc = "element"
  /\ ~SourceExhausted(Locals)
  /\ ~UseMatch(FindMatch(Locals))
  /\ Assign(EmitStep(Locals))
  /\ UNCHANGED <<arg_ok, source, ret_choice, result, tightened_result>>

EndTrial ==
  /\ pc = "end_trial"
  /\ Assign(EndTrialStep(Locals))
  /\ UNCHANGED <<arg_ok, source, ret_choice, result, tightened_result>>

\* if (compressed_lengths[0] <= compressed_lengths[1]) ret_choice = 0; else 1
RetChoice == IF compressed_lengths[0] <= compressed_lengths[1] THEN 0 ELSE 1

\* Py_BuildValue("y#", &compressed_data[ret_choice][0], compressed_lengths[ret_choice])
BuildValue(c) ==
  [kind |-> "bytes",
   len  |-> compressed_lengths[c],
   data |-> ReadBytes(compressed_data[c], compressed_lengths[c])]

Select ==
  /\ pc = "select"
  /\ ret_choice' = RetChoice
  /\ result' = BuildValue(RetChoice)
  /\ pc' = "done"
  /\ UNCHANGED <<arg_ok, source, i, lookback_range, max_copy_length, header_pos,
                 src_pos, out_pos, done, bit, best_size, compressed_data,
                 compressed_lengths, lookback_st, lookback_end, best_len,
                 best_len_st, tightened_result>>

Next ==
  \/ ParseFail
  \/ ParseOk
  \/ BeginTrial
  \/ AbortTrial
  \/ StartPacket
  \/ TerminateClean
  \/ TerminateAddendum
  \/ EmitMatch
  \/ EmitLiteral
  \/ EndTrial
  \/ Select

Spec == Init /\ [][Next]_vars

---------------------------------------------------------------------------
(* The capacity runs: inputs long enough to reach the 0x1000 bound.  Here  *)
(* a trial is one action: BeginTrial and then the while loop to its exit.  *)

\* Zero runs that fill 240 packets of trial 0 and then end inside, or run
\* past, the 241st; with every short run.
CapacityInputs ==
  {Zeros(n) : n \in 0..MaxRun} \cup {Zeros(n) : n \in {65485, 65519, 65520}}

InitCapacity == InitWith(CapacityInputs)

RunTrial ==
  /\ pc = "for_i"
  /\ i < 2
  /\ LET s == BeginTrialStep(Locals) IN Assign(RunSteps(s, StepBound(s)))
  /\ UNCHANGED <<arg_ok, source, ret_choice, result, tightened_result>>

NextCapacity ==
  \/ ParseFail
  \/ ParseOk
  \/ RunTrial
  \/ EndTrial
  \/ Select

SpecCapacity == InitCapacity /\ [][NextCapacity]_vars

---------------------------------------------------------------------------
(* Both trials instrumented: after the call, trial 1 is run again with     *)
(* best_size put back to 0x1000, and the selection is made again.  A trial *)
(* is one action here too.                                                 *)

\* n bytes in which no three consecutive bytes occur twice, none of them 0.
Block(n) ==
  [k \in 1..n |->
     LET j == (k - 1) \div 3 IN
     CASE (k - 1) % 3 = 0 -> 1 + (j % 60)
       [] (k - 1) % 3 = 1 -> 64 + (j \div 60)
       [] OTHER -> 128]

\* A block, zeros, and the start of the block again more than 0x07FF and
\* less than 0x0FFF bytes later: only trial 1 can copy it.
Far(n, m) == [head |-> Block(n), fill |-> 1920, period |-> 1, tail |-> Block(m)]

\* One input on which trial 1 is 55 bytes shorter than trial 0, and one on
\* which it is 1 byte shorter.
FarInputs == {Far(160, 160), Far(128, 107)}

InitRef == InitWith(Inputs \cup FarInputs)

RerunUntightened ==
  /\ pc = "done"
  /\ result.kind = "bytes"
  /\ tightened_result = NoResult
  /\ tightened_result' = result
  /\ result' = NoResult
  /\ i' = 1
  /\ best_size' = InitialBestSize
  /\ compressed_data' = [compressed_data EXCEPT ![1] = <<>>]
  /\ compressed_lengths' = [compressed_lengths EXCEPT ![1] = Sentinel]
  /\ pc' = "for_i"
  /\ UNCHANGED <<arg_ok, source, lookback_range, max_copy_length, header_pos,
                 src_pos, out_pos, done, bit, lookback_st, lookback_end,
                 best_len, best_len_st, ret_choice>>

NextRef ==
  \/ ParseFail
  \/ ParseOk
  \/ RunTrial
  \/ EndTrial
  \/ Select
  \/ RerunUntightened

SpecRef == InitRef /\ [][NextRef]_vars

---------------------------------------------------------------------------
(* Claims. *)

\* Trial t ran to termination (src_pos reached len_source).
Completed(t) == compressed_lengths[t] # Sentinel

\* Both trials stopped at the bound.
BothAborted == pc = "done" /\ arg_ok /\ ~Completed(0) /\ ~Completed(1)

\* C1: compress returns a frame of at most 0x1000 bytes or raises an error;
\* it never returns a longer frame.
C1_SizeBound ==
  result.kind = "bytes" => result.len <= InitialBestSize

\* C2: when both trials abort, compress raises an error and returns no
\* buffer; it never returns the sentinel length or bytes no completed trial
\* wrote.
C2_BothAbortedIsError ==
  /\ BothAborted => result.kind = "error"
  /\ result.kind = "bytes" =>
       /\ result.len # Sentinel
       /\ Len(result.data) = result.len
       /\ \A k \in 1..Len(result.data) : result.data[k] # Uninit

---------------------------------------------------------------------------
(* A decoder of the frame, written from the frame layout alone. *)

\* Byte k of frame f.
FrameAt(f, k) == IF k >= 0 /\ k < Len(f) THEN f[k + 1] ELSE Uninit

\* A frame that does not parse decodes to this, which is no input.
Malformed == <<Uninit>>

\* Append n bytes, each copied from offset bytes behind the end.
RECURSIVE CopyBack(_, _, _)
CopyBack(out, offset, n) ==
  IF n <= 0 THEN out
  ELSE IF offset < 1 \/ offset > Len(out) THEN Malformed
  ELSE CopyBack(Append(out, out[Len(out) - offset + 1]), offset, n - 1)

\* Elements k .. count-1 of a packet with the given flags, read from pos.
RECURSIVE DecodeElements(_, _, _, _, _, _, _)
DecodeElements(f, t, pos, flags, k, count, out) ==
  IF k >= count THEN [pos |-> pos, out |-> out]
  ELSE IF BitOf(flags, k) = 1
  THEN LET v == FrameAt(f, pos) + 256 * FrameAt(f, pos + 1)
       IN DecodeElements(f, t, pos + 2, flags, k + 1, count,
                         CopyBack(out, BitAnd(v, LookbackRange(t)),
                                  Shr(v, LengthShift(t)) + 3))
  ELSE DecodeElements(f, t, pos + 1, flags, k + 1, count,
                      Append(out, FrameAt(f, pos)))

\* Full packets from pos up to end.
RECURSIVE DecodePackets(_, _, _, _, _)
DecodePackets(f, t, pos, end, out) ==
  IF pos >= end THEN [pos |-> pos, out |-> out]
  ELSE LET r == DecodeElements(f, t, pos + 1, FrameAt(f, pos), 0, 8, out)
       IN DecodePackets(f, t, r.pos, end, r.out)

\* The position of the terminator or addendum header of frame f.
FrameHeaderPos(f) == 2 + FrameAt(f, 0) + 256 * FrameAt(f, 1)

\* The configuration a frame was written under, from its tag bits.
FrameTrial(f) == IF FrameAt(f, FrameHeaderPos(f)) \div 8 = 24 THEN 0 ELSE 1

Decode(f) ==
  LET hp   == FrameHeaderPos(f)
      t    == FrameTrial(f)
      a    == FrameAt(f, hp) % 8
      body == DecodePackets(f, t, 2, hp, <<>>)
      add  == DecodeElements(f, t, hp + 4, FrameAt(f, hp + 3), 0, a, body.out)
  IN IF Len(f) < 3 \/ body.pos # hp THEN Malformed
     ELSE IF a = 0 THEN (IF Len(f) = hp + 1 THEN body.out ELSE Malformed)
     ELSE IF add.pos + 1 = Len(f) /\ FrameAt(f, add.pos) = TagByte(t)
     THEN add.out
     ELSE Malformed

\* The frame trial t left, when it completed.
Frame(t) == ReadBytes(compressed_data[t], compressed_lengths[t])

\* C3: every trial that completes consumed the whole source, and replaying
\* its elements in order (a literal appends its byte, a match copies length
\* bytes one at a time from offset bytes behind the end) gives the source back.
C3_RoundTrip ==
  /\ \A t \in 0..1 : Completed(t) => Decode(Frame(t)) = SourceBytes
  /\ (pc = "end_trial" /\ done) => src_pos = len_source

\* A completed call on an input that was compressed with matches.
C3_Witness ==
  /\ pc = "done"
  /\ result.kind = "bytes"
  /\ result.len < len_source
  /\ Decode(result.data) = SourceBytes

---------------------------------------------------------------------------
(* The match finder's contract. *)

\* A scan has run in the current trial: best_len and best_len_st are its
\* result at position lookback_end.
ScanDone == pc \in {"element", "while", "end_trial"} /\ src_pos > 0

Min2(a, b) == IF a < b THEN a ELSE b

SetMax(S) == CHOOSE x \in S : \A y \in S : y <= x
SetMin(S) == CHOOSE x \in S : \A y \in S : x <= y

\* The starts the contract allows at position p.
RefWindow(p) ==
  (IF p - lookback_range > 0 THEN p - lookback_range ELSE 0) .. (p - 1)

\* The largest length the contract allows at position p.
RefLimit(p) == Min2(max_copy_length, len_source - p)

\* The number of bytes on which the source at a and at b agree, up to limit.
RECURSIVE RefCommon(_, _, _, _)
RefCommon(a, b, c, limit) ==
  IF c < limit /\ SourceAt(a + c) = SourceAt(b + c)
  THEN RefCommon(a, b, c + 1, limit)
  ELSE c

\* The contract's answer at position p: the longest agreement any start of
\* the window reaches, and the starts that reach it.
RefMatch(p) ==
  LET lens   == [st \in RefWindow(p) |-> RefCommon(st, p, 0, RefLimit(p))]
      best   == IF RefWindow(p) = {} THEN 0
                ELSE SetMax({lens[st] : st \in RefWindow(p)})
      starts == {st \in RefWindow(p) : lens[st] = best}
  IN [len |-> best, starts |-> starts]

\* C5 as claimed: best_len is the longest match in the window and
\* best_len_st is the largest start reaching it, also when best_len is
\* max_copy_length.
C5_ClosestStartAlways ==
  ScanDone =>
    LET r == RefMatch(lookback_end)
    IN /\ best_len = r.len
       /\ best_len_st = IF r.starts = {} THEN 0 ELSE SetMax(r.starts)

\* C5 amended: best_len is the longest match in the window; best_len_st is
\* the largest start reaching it when best_len < max_copy_length, and the
\* smallest start reaching it when best_len = max_copy_length (the scan
\* stops at the first full-length match).
C5_MatchFinder ==
  ScanDone =>
    LET r == RefMatch(lookback_end)
    IN /\ best_len = r.len
       /\ best_len_st = IF r.starts = {} THEN 0
                        ELSE IF best_len = max_copy_length
                        THEN SetMin(r.starts)
                        ELSE SetMax(r.starts)

\* A scan that met several full-length matches and kept the first of them.
C5_Witness ==
  /\ ScanDone
  /\ best_len = max_copy_length
  /\ LET r == RefMatch(lookback_end)
     IN /\ Cardinality(r.starts) > 1
        /\ best_len_st = SetMin(r.starts)
        /\ best_len_st # SetMax(r.starts)

---------------------------------------------------------------------------
(* The matches emitted. *)

\* The last element emitted in the current trial was a match.
MatchEmitted == ScanDone /\ best_len > 2

\* C6 as claimed: the referenced region lies within the source and ends at
\* or before src_pos (the position the match was emitted at).
C6_NoOverlap ==
  MatchEmitted =>
    /\ 0 <= best_len_st
    /\ best_len_st + best_len <= len_source
    /\ best_len_st + best_len <= lookback_end

\* C6 amended: the referenced region lies within the source and starts
\* strictly before src_pos; it may run into the bytes the match encodes,
\* and every byte of it equals the byte it stands for.
C6_RegionStartsBefore ==
  MatchEmitted =>
    /\ 0 <= best_len_st
    /\ best_len_st < lookback_end
    /\ best_len_st + best_len <= len_source
    /\ \A k \in 0..(best_len - 1) :
         SourceAt(best_len_st + k) = SourceAt(lookback_end + k)

\* A match whose region runs into the bytes it encodes.
C6_Witness ==
  /\ MatchEmitted
  /\ best_len_st < lookback_end
  /\ best_len_st + best_len > lookback_end

\* The last step wrote an element, and it was a match.
MatchWritten == MatchEmitted /\ pc \in {"element", "while"} /\ bit > 0

\* The 16-bit value at the two bytes last written.
LastPacked ==
  Load(compressed_data[i], out_pos - 2) + 256 * Load(compressed_data[i], out_pos - 1)

\* C9: in both configurations (0x07FF, shift 11, 34; 0x0FFF, shift 12, 18)
\* an emitted match has 1 <= offset <= lookback_range and
\* 3 <= length <= max_copy_length, its packed value fits in 16 bits with
\* offset and length bits apart, and the pair is recovered from it.
C9_MatchPacking ==
  MatchWritten =>
    LET offset == lookback_end - best_len_st
        shift  == LengthShift(i)
    IN /\ lookback_range = (IF i = 0 THEN 2047 ELSE 4095)
       /\ shift = (IF i = 0 THEN 11 ELSE 12)
       /\ max_copy_length = (IF i = 0 THEN 34 ELSE 18)
       /\ 1 <= offset /\ offset <= lookback_range
       /\ 3 <= best_len /\ best_len <= max_copy_length
       /\ offset + (best_len - 3) * (2 ^ shift) < 65536
       /\ LastPacked = offset + (best_len - 3) * (2 ^ shift)
       /\ BitAnd(LastPacked, lookback_range) = offset
       /\ Shr(LastPacked, shift) + 3 = best_len

\* A match written at the largest offset of its configuration.
C9_Witness ==
  /\ MatchWritten
  /\ lookback_end - best_len_st = lookback_range
  /\ LastPacked = lookback_range + (best_len - 3) * (2 ^ LengthShift(i))

---------------------------------------------------------------------------
(* The frame layout. *)

\* The bytes the elements of the current packet take.
ElementBytes == out_pos - header_pos - 1

\* C7 as claimed: after a mid-packet termination at bit a, the byte at
\* 2 + main_body_length is tag_byte | a, the next two bytes are the
\* little-endian total length marker, the a elements follow from
\* 2 + main_body_length + 3 on, and the byte after the last of them is
\* tag_byte and ends the frame.
C7_ElementsFollowMarker ==
  [][TerminateAddendum =>
       LET old == compressed_data[i]
           f   == compressed_data'[i]
       IN /\ 2 + Load(f, 0) + 256 * Load(f, 1) = header_pos
          /\ Load(f, header_pos) = BitOr(TagByte(i), bit)
          /\ Load(f, header_pos + 1) + 256 * Load(f, header_pos + 2) = out_pos + 3
          /\ \A k \in 0..(ElementBytes - 1) :
               Load(f, header_pos + 3 + k) = Load(old, header_pos + 1 + k)
          /\ Load(f, header_pos + 3 + ElementBytes) = TagByte(i)
          /\ compressed_lengths'[i] = header_pos + 3 + ElementBytes + 1
          /\ Len(f) = compressed_lengths'[i]]_vars

\* C7 amended: after a mid-packet termination at bit a, the byte at
\* 2 + main_body_length is tag_byte | a, the next two bytes are the
\* little-endian total length marker (the offset of the last byte of the
\* frame), the byte at 2 + main_body_length + 3 is the partial packet's own
\* header byte (its flags, with bits a..7 set), the a elements follow from
\* 2 + main_body_length + 4 on, and the byte after the last of them is
\* tag_byte and ends the frame.
C7_AddendumLayout ==
  [][TerminateAddendum =>
       LET old == compressed_data[i]
           f   == compressed_data'[i]
       IN /\ 2 + Load(f, 0) + 256 * Load(f, 1) = header_pos
          /\ Load(f, header_pos) = BitOr(TagByte(i), bit)
          /\ Load(f, header_pos + 1) + 256 * Load(f, header_pos + 2) = out_pos + 3
          /\ out_pos + 3 = compressed_lengths'[i] - 1
          /\ Load(f, header_pos + 3) =
               BitOr(Load(old, header_pos), 256 - 2 ^ bit)
          /\ \A k \in 0..(ElementBytes - 1) :
               Load(f, header_pos + 4 + k) = Load(old, header_pos + 1 + k)
          /\ Load(f, header_pos + 4 + ElementBytes) = TagByte(i)
          /\ compressed_lengths'[i] = header_pos + 4 + ElementBytes + 1
          /\ Len(f) = compressed_lengths'[i]]_vars

\* A trial that ended mid-packet, with a match among the addendum's elements.
C7_Witness ==
  /\ pc = "end_trial"
  /\ done
  /\ bit > 1
  /\ ElementBytes > bit
  /\ Load(compressed_data[i], header_pos) = BitOr(TagByte(i), bit)
  /\ Load(compressed_data[i], header_pos + 4 + ElementBytes) = TagByte(i)

\* The bytes that the first n elements of a packet with header h take.
RECURSIVE ElementsSize(_, _)
ElementsSize(h, n) ==
  IF n = 0 THEN 0 ELSE ElementsSize(h, n - 1) + 1 + BitOf(h, n - 1)

\* Where a walk over full packets (a header byte, then 8 elements sized by
\* the header's bits) from pos first reaches or passes end.
RECURSIVE FullPacketsEnd(_, _, _)
FullPacketsEnd(f, pos, end) ==
  IF pos >= end THEN pos
  ELSE FullPacketsEnd(f, pos + 1 + ElementsSize(Load(f, pos), 8), end)

\* C8: in a completed trial the first two bytes hold header_pos - 2
\* little-endian, untruncated, and the bytes from 2 up to header_pos are
\* full packets, a header byte and 8 elements each, element k a 2-byte
\* match iff bit k of the header is 1; while a packet is written its
\* header bits and its bytes agree the same way.
C8_MainBody ==
  LET f == compressed_data[i] IN
  /\ (pc = "end_trial" /\ done) =>
       /\ Load(f, 0) + 256 * Load(f, 1) = header_pos - 2
       /\ header_pos - 2 < 65536
       /\ FullPacketsEnd(f, 2, header_pos) = header_pos
  /\ (pc \in {"element", "while"} /\ out_pos > 2) =>
       /\ out_pos = header_pos + 1 + ElementsSize(Load(f, header_pos), bit)
       /\ \A k \in bit..7 : BitOf(Load(f, header_pos), k) = 0
       /\ FullPacketsEnd(f, 2, header_pos) = header_pos
       /\ pc = "while" => bit = 8
       /\ bit > 0 => (BitOf(Load(f, header_pos), bit - 1) = 1 <=> best_len > 2)

\* A completed trial with a full packet that holds a match, ended cleanly.
C8_Witness ==
  /\ pc = "end_trial"
  /\ done
  /\ bit = 0
  /\ header_pos > 2
  /\ Load(compressed_data[i], 2) # 0
  /\ Load(compressed_data[i], 0) = header_pos - 2

---------------------------------------------------------------------------
(* The reads of the source. *)

\* The indices the while loop of lines 134-138 reads for one start.
ExtendReads(s, start) ==
  UNION {{start + c, s.src_pos + c} :
           c \in {c \in 0..ExtendLen(s, start, 0) : ExtendGuard(s, c)}}

\* The starts the for loop of line 131 visits: all of the window, or up to
\* the start at which it breaks.
VisitedStarts(s) ==
  LET m == FindMatch(s)
  IN IF m.best_len = s.max_copy_length
     THEN LookbackSt(s) .. m.best_len_st
     ELSE LookbackSt(s) .. (LookbackEnd(s) - 1)

\* The indices one pass of the for loop over bit reads: the scan's, and the
\* literal copy's.
ElementReads(s) ==
  UNION {ExtendReads(s, start) : start \in VisitedStarts(s)}
    \cup (IF UseMatch(FindMatch(s)) THEN {} ELSE {s.src_pos})

\* C10: every index the scan and the literal copy read lies in [0, N).
C10_ReadsInBounds ==
  (pc = "element" /\ ~SourceExhausted(Locals)) =>
    \A r \in ElementReads(Locals) : 0 <= r /\ r < len_source

\* A scan that read the last byte of the source through start + cur_len
\* and was stopped by src_pos + cur_len < len_source alone.
C10_Witness ==
  /\ pc = "element"
  /\ ~SourceExhausted(Locals)
  /\ src_pos > 1
  /\ \E start \in VisitedStarts(Locals) :
       /\ src_pos + ExtendLen(Locals, start, 0) = len_source
       /\ ExtendLen(Locals, start, 0) < max_copy_length
       /\ ExtendLen(Locals, start, 0) > 1
  /\ \A r \in ElementReads(Locals) : 0 <= r /\ r < len_source

---------------------------------------------------------------------------
(* The tightened bound. *)

\* C4: with trial 0 below 0x1000, the call (trial 1 run under
\* best_size = L_0) returns byte for byte what is selected by
\* 'O_0 iff L_0 <= L_1' when trial 1 is run under the fixed bound 0x1000.
C4_TighteningKeepsResult ==
  (pc = "done" /\ tightened_result # NoResult /\ compressed_lengths[0] < InitialBestSize) =>
    /\ result = tightened_result
    /\ result = BuildValue(IF compressed_lengths[0] <= compressed_lengths[1] THEN 0 ELSE 1)

\* Trial 1 under the fixed bound came out strictly shorter than trial 0,
\* and the call had returned it.
C4_Witness ==
  /\ pc = "done"
  /\ tightened_result # NoResult
  /\ compressed_lengths[1] < compressed_lengths[0]
  /\ compressed_lengths[0] < InitialBestSize
  /\ tightened_result = BuildValue(1)

=============================================================================
